---------------------------- MODULE Spec2Model ----------------------------
(***************************************************************************)
(* Model of main.py of Tables_Generator: a driver that, for every          *)
(* (row count, column count, filling mode), generates a table, renders it  *)
(* to LaTeX markup, compiles the markup to a PDF and writes the PDF and a  *)
(* CSV of the same data under ./tables.                                    *)
(*                                                                         *)
(* Python strings are TLA+ strings; a list is a sequence.  The text        *)
(* generator (lorem) and the clock are the program's two sources of        *)
(* nondeterminism: lorem draws from an unseeded pseudo-random generator    *)
(* (state rng, seeded nondeterministically), the clock may advance between *)
(* any two statements and between any two reads.                           *)
(***************************************************************************)
EXTENDS Integers, Sequences, FiniteSets, TLC

VARIABLES
    pc,          \* position of the driver (or of the function call under test)
    r_c,         \* loop variable r_c (number of rows)
    c_c,         \* loop variable c_c (number of columns)
    filling,     \* loop variable filling
    table_data,  \* local table_data
    table_title, \* local table_title
    tex_code,    \* local tex_code
    pdf,         \* local pdf (the compiled document), NoValue before build_pdf
    dir_exists,  \* whether the directory 'tables' exists
    files,       \* the files under 'tables': path -> content
    rng,         \* state of the pseudo-random generator behind lorem
    clock,       \* time.time() in whole seconds
    log,         \* history: the steps completed so far in the current iteration
    failure,     \* history: the call that raised, NoValue while none has
    arg_n,       \* argument of a get_text call under test
    rng_at_call, \* history: the generator state when the function under test was called
    result       \* value returned by the function call under test

vars == <<pc, r_c, c_c, filling, table_data, table_title, tex_code, pdf,
          dir_exists, files, rng, clock, log, failure, arg_n, rng_at_call, result>>

(***************************************************************************)
(* Bounds of the model.                                                    *)
(***************************************************************************)
MaxSeed == 0          \* seeds of the generator are 0..MaxSeed
ParagraphDraws == 2   \* sentences drawn by one lorem.paragraph()
StartClock == 9       \* the clock when the program starts
MaxClock == 10        \* the clock does not advance beyond this
LastTickColumn == 3   \* the clock advances while r_c = ROW_COUNT_MIN and c_c <= LastTickColumn
MaxPartial == 18      \* characters on disk when a CSV write fails: 0..MaxPartial
MaxRows == 3          \* generate_data under test: rows 0..MaxRows
MaxCols == 3          \* generate_data under test: columns 0..MaxCols
MaxSentences == 3     \* get_text under test: n in 0..MaxSentences
MaxTitleLen == 7      \* generate_tex_code under test: title length 0..MaxTitleLen
MaxTexRows == 2       \* generate_tex_code under test: rows 0..MaxTexRows
MaxTexCols == 2       \* generate_tex_code under test: row width 0..MaxTexCols

(***************************************************************************)
(* Program constants.                                                      *)
(***************************************************************************)
ROW_COUNT_MIN == 2
ROW_COUNT_MAX == 10
COLUMNS_COUNT_MIN == 2
COLUMNS_COUNT_MAX == 8

COLUMN_DELIMITER == "|"
COLUMN_SEPARATOR == "&"
NEW_ROW_SYMBOL == "\\\\"
TABLE_HORIZONTAL_LINE == "\\hline"

TEXT_BEFORE_TABLE == "_TEXT_BEFORE_TABLE"
TEXT_AFTER_TABLE == "_TEXT_AFTER_TABLE"
TABLE == "_THE_TABLE_"
TABLE_SCHEMA == "_TABLE_SCHEMA"
TABLE_ROWS_LIST == "_TABLE_ROWS_LIST"
TABLE_TITLE == "_TABLE_TITLE"

DIRECTORY_NAME == "tables"

TEX_DOCUMENT_PATTERN ==
    "\\documentclass{article}" \o "\n" \o
    "\\usepackage[a4paper, portrait, margin=1in]{geometry}" \o "\n" \o
    "\\usepackage[utf8x]{inputenc}" \o "\n" \o
    "\\usepackage{tabularx}" \o "\n" \o
    "\\begin{document}" \o "\n" \o
    TEXT_BEFORE_TABLE \o "\n" \o "\n" \o
    TABLE \o "\n" \o
    TEXT_AFTER_TABLE \o "\n" \o
    "\\end{document}"

TEX_TABLE_PATTERN ==
    "\\begin{tabular}{" \o TABLE_SCHEMA \o "}" \o "\n" \o
    "\\hline" \o
    "\n" \o TABLE_TITLE \o
    "\\\\ \\hline" \o
    "\n" \o
    TABLE_ROWS_LIST \o " \\\\ \\hline" \o
    "\n" \o
    "\\end{tabular}" \o
    "\n"

NoValue == "<none>"

(***************************************************************************)
(* Python string operations.                                               *)
(***************************************************************************)
CharAt(s, i) == SubSeq(s, i, i)

MinOf(S) == CHOOSE x \in S : \A y \in S : x <= y

\* str.find(sub) as a 1-based index, 0 when sub does not occur in s.
StrFind(s, sub) ==
    LET k == Len(sub)
        hits == {i \in 1..(Len(s) - k + 1) :
                    /\ CharAt(s, i) = CharAt(sub, 1)
                    /\ SubSeq(s, i, i + k - 1) = sub}
    IN  IF hits = {} THEN 0 ELSE MinOf(hits)

StrContains(s, sub) == StrFind(s, sub) # 0

\* str.replace(old, new): every non-overlapping occurrence of old, found left
\* to right in the original text; the inserted text is not scanned again.
RECURSIVE StrReplace(_, _, _)
StrReplace(s, old, new) ==
    LET i == StrFind(s, old)
    IN  IF i = 0 THEN s
        ELSE SubSeq(s, 1, i - 1) \o new
             \o StrReplace(SubSeq(s, i + Len(old), Len(s)), old, new)

\* sep.join(list)
RECURSIVE StrJoin(_, _)
StrJoin(sep, list) ==
    IF Len(list) = 0 THEN ""
    ELSE IF Len(list) = 1 THEN list[1]
    ELSE list[1] \o sep \o StrJoin(sep, Tail(list))

\* s * n
RECURSIVE StrRepeat(_, _)
StrRepeat(s, n) == IF n <= 0 THEN "" ELSE s \o StrRepeat(s, n - 1)

\* str(i) for an integer i >= 0
PyStrInt(i) == ToString(i)

\* str(b) for a bool
PyStrBool(b) == IF b THEN "True" ELSE "False"

(***************************************************************************)
(* The lorem text generator: a pseudo-random generator and the sentences   *)
(* it picks.  Sentences are capitalised words separated by spaces, with    *)
(* optional commas, ending in a full stop.                                 *)
(***************************************************************************)
Seeds == 0..MaxSeed

\* The generator state after one draw, and after n draws, from state s.
RngNext(s) == (s + 5) % 7

RngAfter(s, n) == (s + 5 * n) % 7

SentencePool == <<"Quia ut.", "Non, sed est.", "Amet.">>

\* lorem.sentence(): the sentence picked in generator state s (the call
\* advances the generator by one draw).
LoremSentence(s) == SentencePool[(s % Len(SentencePool)) + 1]

\* lorem.paragraph() draws ParagraphDraws sentences and joins them with spaces.
LoremParagraph(s) ==
    StrJoin(" ", [i \in 1..ParagraphDraws |-> LoremSentence(RngAfter(s, i - 1))])

(***************************************************************************)
(* The functions of main.py.  A function that draws from lorem takes the   *)
(* generator state `seed` it starts from; generate_data takes the clock    *)
(* `now` when it is called and `tick`, the number of reads made before the *)
(* clock advances by one second (tick >= rows * cols: it does not).        *)
(***************************************************************************)
get_schema(number_of_columns, text_position) ==
    StrRepeat("|" \o text_position, number_of_columns) \o "|"

get_text(number_of_sentences, seed) ==
    StrRepeat(LoremSentence(seed), number_of_sentences)

get_table_title(number_of_columns, title_generic_name) ==
    [i \in 1..number_of_columns |-> title_generic_name \o PyStrInt(i - 1)]

\* The cell appended as the k-th (k = 0, 1, ...) of a generate_data call.
CellFilling(k, filling_is_sentences, seed, now, tick) ==
    IF filling_is_sentences
    THEN LoremSentence(RngAfter(seed, k))
    ELSE PyStrInt(IF k < tick THEN now ELSE now + 1)

\* Mutant of generate_data: the row loop starts at 1 (range(1, number_of_rows)).
generate_data_short(number_of_rows, number_of_columns, filling_is_sentences, seed, now, tick) ==
    [r \in 1..(number_of_rows - 1) |->
        [c \in 1..number_of_columns |->
            CellFilling((r - 1) * number_of_columns + (c - 1),
                        filling_is_sentences, seed, now, tick)]]

generate_data(number_of_rows, number_of_columns, filling_is_sentences, seed, now, tick) ==
    [r \in 1..number_of_rows |->
        [c \in 1..number_of_columns |->
            CellFilling((r - 1) * number_of_columns + (c - 1),
                        filling_is_sentences, seed, now, tick)]]

\* The generator and the clock after generate_data.
RngAfterData(number_of_rows, number_of_columns, filling_is_sentences, seed) ==
    IF filling_is_sentences
    THEN RngAfter(seed, number_of_rows * number_of_columns)
    ELSE seed

ClockAfterData(number_of_rows, number_of_columns, filling_is_sentences, now, tick) ==
    IF ~filling_is_sentences /\ tick < number_of_rows * number_of_columns
    THEN now + 1
    ELSE now

\* Mutant of PyIntTrueDiv: round(a / b) in place of int(a / b).
PyRoundDiv(a, b) == (2 * a + b) \div (2 * b)

\* int(a / b) for a >= 0, b > 0
PyIntTrueDiv(a, b) == a \div b

\* schema of generate_tex_code (lines 120, 132-135)
TexSchema(table_title_data) ==
    LET number_of_columns == Len(table_title_data)
        table_width_cm == 15
        cell_schema == "p{" \o PyStrInt(PyIntTrueDiv(table_width_cm, number_of_columns)) \o "cm}"
    IN  get_schema(number_of_columns, cell_schema)

\* tex_rows of generate_tex_code (lines 124-130)
TexRows(tdata) ==
    LET table == [i \in 1..Len(tdata) |->
                     StrJoin(" " \o COLUMN_SEPARATOR \o " ", tdata[i])]
    IN  StrJoin(" " \o NEW_ROW_SYMBOL \o " " \o TABLE_HORIZONTAL_LINE \o "\n", table)

\* tex_table of generate_tex_code (lines 120-140)
TexTable(tdata, table_title_data) ==
    LET tex_table_title == StrJoin(" " \o COLUMN_SEPARATOR \o " ", table_title_data)
        tex_rows == TexRows(tdata)
        schema == TexSchema(table_title_data)
    IN  StrReplace(
            StrReplace(
                StrReplace(TEX_TABLE_PATTERN, TABLE_ROWS_LIST, tex_rows),
                TABLE_SCHEMA, schema),
            TABLE_TITLE, tex_table_title)

generate_tex_code(tdata, table_title_data, seed) ==
    LET text_before == LoremParagraph(seed)
        text_after == LoremParagraph(RngAfter(seed, ParagraphDraws))
        tex_table == TexTable(tdata, table_title_data)
    IN  StrReplace(
            StrReplace(
                StrReplace(TEX_DOCUMENT_PATTERN, TEXT_BEFORE_TABLE, text_before),
                TABLE, tex_table),
            TEXT_AFTER_TABLE, text_after)

\* build_pdf(tex_code): the compiled document, which embeds its source markup.
build_pdf(markup) == <<"%PDF", markup>>

\* Mutant of FilePath: the filling flag left out of the file name.
FilePathNoFilling(r, c, f) ==
    "./" \o DIRECTORY_NAME \o "/" \o PyStrInt(r) \o "_" \o PyStrInt(c)

\* f'./{DIRECTORY_NAME}/{r_c}_{c_c}_{filling}'
FilePath(r, c, f) ==
    "./" \o DIRECTORY_NAME \o "/" \o PyStrInt(r) \o "_" \o PyStrInt(c) \o "_" \o PyStrBool(f)

(***************************************************************************)
(* csv.writer(csv_file, quotechar='|', quoting=csv.QUOTE_MINIMAL): comma   *)
(* delimiter, doubled quote characters, '\r\n' after each record.          *)
(***************************************************************************)
CSV_DELIMITER == ","
CSV_QUOTECHAR == "|"
CSV_LINETERMINATOR == "\r\n"

CsvNeedsQuote(field) ==
    \E i \in 1..Len(field) :
        CharAt(field, i) \in {CSV_DELIMITER, CSV_QUOTECHAR, "\r", "\n"}

\* Mutant of CsvField: fields are never quoted (csv.QUOTE_NONE without escaping).
CsvFieldUnquoted(field, alone) == field

\* One field as written; `alone` when it is the only field of its record.
CsvField(field, alone) ==
    IF CsvNeedsQuote(field) \/ (alone /\ field = "")
    THEN CSV_QUOTECHAR
         \o StrReplace(field, CSV_QUOTECHAR, CSV_QUOTECHAR \o CSV_QUOTECHAR)
         \o CSV_QUOTECHAR
    ELSE field

csv_writerow(row) ==
    StrJoin(CSV_DELIMITER, [i \in 1..Len(row) |-> CsvField(row[i], Len(row) = 1)])
    \o CSV_LINETERMINATOR

RECURSIVE csv_writerows(_)
csv_writerows(rows) ==
    IF Len(rows) = 0 THEN ""
    ELSE csv_writerow(Head(rows)) \o csv_writerows(Tail(rows))

\* The text of the .csv file written by lines 172-176.
CsvText(title, table) == csv_writerow(title) \o csv_writerows(table)

(***************************************************************************)
(* csv.reader(csv_file, quotechar='|') on a file opened with newline='':   *)
(* the text as a sequence of records, each a sequence of fields.           *)
(***************************************************************************)
IsNewline(ch) == ch \in {"\r", "\n"}

\* Index of the first delimiter or newline character at or after p, Len + 1
\* when there is none: where an unquoted stretch of a field ends.
RECURSIVE CsvFieldStop(_, _)
CsvFieldStop(text, p) ==
    IF p > Len(text) THEN Len(text) + 1
    ELSE IF CharAt(text, p) = CSV_DELIMITER \/ IsNewline(CharAt(text, p)) THEN p
    ELSE CsvFieldStop(text, p + 1)

\* Index of the quote character that closes a quoted field, scanning its
\* content from q (two quote characters in a row are one quote character of
\* the content); 0 when the field is not closed.
RECURSIVE CsvClosingQuote(_, _)
CsvClosingQuote(text, q) ==
    IF q > Len(text) THEN 0
    ELSE IF CharAt(text, q) # CSV_QUOTECHAR THEN CsvClosingQuote(text, q + 1)
    ELSE IF q < Len(text) /\ CharAt(text, q + 1) = CSV_QUOTECHAR
    THEN CsvClosingQuote(text, q + 2)
    ELSE q

\* The field that starts at p: its value and the index of the character
\* that ends it (a delimiter, a newline, or Len + 1 at the end of the text).
CsvParseField(text, p) ==
    IF p <= Len(text) /\ CharAt(text, p) = CSV_QUOTECHAR
    THEN LET e == CsvClosingQuote(text, p + 1)
         IN  IF e = 0
             THEN [val |-> StrReplace(SubSeq(text, p + 1, Len(text)),
                                      CSV_QUOTECHAR \o CSV_QUOTECHAR, CSV_QUOTECHAR),
                   stop |-> Len(text) + 1]
             ELSE LET stop == CsvFieldStop(text, e + 1)
                  IN  [val |-> StrReplace(SubSeq(text, p + 1, e - 1),
                                          CSV_QUOTECHAR \o CSV_QUOTECHAR, CSV_QUOTECHAR)
                               \o SubSeq(text, e + 1, stop - 1),
                       stop |-> stop]
    ELSE LET stop == CsvFieldStop(text, p)
         IN  [val |-> SubSeq(text, p, stop - 1), stop |-> stop]

\* The fields of the record whose next field starts at p, and the index of
\* the newline (or Len + 1) that ends the record.
RECURSIVE CsvParseFields(_, _)
CsvParseFields(text, p) ==
    LET f == CsvParseField(text, p)
    IN  IF f.stop <= Len(text) /\ CharAt(text, f.stop) = CSV_DELIMITER
        THEN LET rest == CsvParseFields(text, f.stop + 1)
             IN  [fields |-> <<f.val>> \o rest.fields, stop |-> rest.stop]
        ELSE [fields |-> <<f.val>>, stop |-> f.stop]

\* Index after the newline at p ('\r\n' counts as one).
AfterNewline(text, p) ==
    IF CharAt(text, p) = "\r" /\ p < Len(text) /\ CharAt(text, p + 1) = "\n"
    THEN p + 2
    ELSE p + 1

RECURSIVE CsvParseFrom(_, _)
CsvParseFrom(text, p) ==
    IF p > Len(text) THEN <<>>
    ELSE IF IsNewline(CharAt(text, p))
    THEN <<(<<>>)>> \o CsvParseFrom(text, AfterNewline(text, p))
    ELSE LET r == CsvParseFields(text, p)
         IN  <<r.fields>> \o
             (IF r.stop > Len(text) THEN <<>>
              ELSE CsvParseFrom(text, AfterNewline(text, r.stop)))

csv_reader(text) == CsvParseFrom(text, 1)

(***************************************************************************)
(* The driver (the __main__ block).  pc names the statement about to run.  *)
(* No statement is inside a try: a call that raises ends the program.      *)
(***************************************************************************)
WriteFile(fs, path, content) == (path :> content) @@ fs

\* Mutant of StepAfter: the CSV is written before the PDF is saved.
StepAfterCsvFirst(p) ==
    CASE p = "generate_data" -> "ensure_dir"
      [] p = "ensure_dir" -> "generate_tex_code"
      [] p = "generate_tex_code" -> "build_pdf"
      [] p = "build_pdf" -> "write_csv"
      [] p = "write_csv" -> "save_pdf"
      [] p = "save_pdf" -> "loop"

\* The statement that follows statement p within one iteration.
StepAfter(p) ==
    CASE p = "generate_data" -> "ensure_dir"
      [] p = "ensure_dir" -> "generate_tex_code"
      [] p = "generate_tex_code" -> "build_pdf"
      [] p = "build_pdf" -> "save_pdf"
      [] p = "save_pdf" -> "write_csv"
      [] p = "write_csv" -> "loop"

\* Mutant of Raise: the exception is caught and the sweep goes on with the
\* next combination.
RaiseAndContinue(what) ==
    /\ pc' = "loop"
    /\ failure' = what

\* An exception raised by `what` propagates out of the three loops.
Raise(what) ==
    /\ pc' = "halted"
    /\ failure' = what

\* Whether the clock can advance now: during a function call on its own,
\* and during a statement of the sweep.
ClockRuns == clock < MaxClock

SweepClockRuns == clock < MaxClock /\ r_c = ROW_COUNT_MIN /\ c_c <= LastTickColumn

\* The clock after a statement: it may have advanced while the statement ran.
ClockChoices(runs) == {clock} \cup (IF runs THEN {clock + 1} ELSE {})

\* The number of reads, out of n, that a generate_data call makes before the
\* clock advances (n: it does not advance between the reads).
TickChoices(n, runs) == IF runs THEN 0..n ELSE {n}

\* The clock after a generate_data call that saw it advance after `tick`
\* reads; a call that saw no advance leaves it to ClockChoices.
ClockAfterCall(number_of_rows, number_of_columns, filling_is_sentences, tick, runs) ==
    IF ClockAfterData(number_of_rows, number_of_columns, filling_is_sentences, clock, tick) # clock
    THEN {ClockAfterData(number_of_rows, number_of_columns, filling_is_sentences, clock, tick)}
    ELSE ClockChoices(runs)

Init ==
    /\ pc = "generate_data"
    /\ r_c = ROW_COUNT_MIN
    /\ c_c = COLUMNS_COUNT_MIN
    /\ filling = TRUE
    /\ table_data = NoValue
    /\ table_title = NoValue
    /\ tex_code = NoValue
    /\ pdf = NoValue
    /\ dir_exists \in BOOLEAN
    /\ files = <<>>
    /\ rng \in Seeds
    /\ clock = StartClock
    /\ log = <<>>
    /\ failure = NoValue
    /\ arg_n = 0
    /\ rng_at_call = rng
    /\ result = NoValue

\* lines 155-156
GenerateData ==
    /\ pc = "generate_data"
    /\ \E tick \in (IF filling THEN {r_c * c_c} ELSE TickChoices(r_c * c_c, SweepClockRuns)) :
        /\ table_data' = generate_data(r_c, c_c, filling, rng, clock, tick)
        /\ rng' = RngAfterData(r_c, c_c, filling, rng)
        /\ clock' \in ClockAfterCall(r_c, c_c, filling, tick, SweepClockRuns)
    /\ table_title' = get_table_title(c_c, "title")
    /\ log' = <<"generate_data", "get_table_title">>
    /\ pc' = StepAfter(pc)
    /\ UNCHANGED <<r_c, c_c, filling, tex_code, pdf, dir_exists, files, failure,
                   arg_n, rng_at_call, result>>

\* lines 159-160
EnsureDir ==
    /\ pc = "ensure_dir"
    /\ \/ /\ dir_exists
          /\ log' = Append(log, "ensure_dir")
          /\ pc' = StepAfter(pc)
          /\ UNCHANGED <<dir_exists, failure>>
       \/ /\ ~dir_exists
          /\ dir_exists' = TRUE
          /\ log' = Append(log, "ensure_dir")
          /\ pc' = StepAfter(pc)
          /\ UNCHANGED failure
       \/ /\ ~dir_exists
          /\ Raise("os.makedirs")
          /\ UNCHANGED <<dir_exists, log>>
    /\ clock' \in ClockChoices(SweepClockRuns)
    /\ UNCHANGED <<r_c, c_c, filling, table_data, table_title, tex_code, pdf,
                   files, rng, arg_n, rng_at_call, result>>

\* line 165
Render ==
    /\ pc = "generate_tex_code"
    /\ tex_code' = generate_tex_code(table_data, table_title, rng)
    /\ rng' = RngAfter(rng, 2 * ParagraphDraws)
    /\ log' = Append(log, "generate_tex_code")
    /\ pc' = StepAfter(pc)
    /\ clock' \in ClockChoices(SweepClockRuns)
    /\ UNCHANGED <<r_c, c_c, filling, table_data, table_title, pdf, dir_exists,
                   files, failure, arg_n, rng_at_call, result>>

\* line 168
BuildPdf ==
    /\ pc = "build_pdf"
    /\ \/ /\ pdf' = build_pdf(tex_code)
          /\ log' = Append(log, "build_pdf")
          /\ pc' = StepAfter(pc)
          /\ UNCHANGED failure
       \/ /\ Raise("build_pdf")
          /\ UNCHANGED <<pdf, log>>
    /\ clock' \in ClockChoices(SweepClockRuns)
    /\ UNCHANGED <<r_c, c_c, filling, table_data, table_title, tex_code,
                   dir_exists, files, rng, arg_n, rng_at_call, result>>

\* line 169
SavePdf ==
    /\ pc = "save_pdf"
    /\ \/ /\ files' = WriteFile(files, FilePath(r_c, c_c, filling) \o ".pdf", pdf)
          /\ log' = Append(log, "save_pdf")
          /\ pc' = StepAfter(pc)
          /\ UNCHANGED failure
       \/ /\ Raise("pdf.save_to")
          /\ \/ UNCHANGED files
             \/ files' = WriteFile(files, FilePath(r_c, c_c, filling) \o ".pdf", <<"%PDF">>)
          /\ UNCHANGED log
    /\ clock' \in ClockChoices(SweepClockRuns)
    /\ UNCHANGED <<r_c, c_c, filling, table_data, table_title, tex_code, pdf,
                   dir_exists, rng, arg_n, rng_at_call, result>>

\* Mutant of CsvRowsWritten: the data is generated again for the CSV.
CsvRowsRegenerated == generate_data(r_c, c_c, filling, rng, clock, 0)

\* The rows written by lines 175-176.
CsvRowsWritten == table_data

\* lines 172-176.  The file is opened for writing (created or truncated),
\* the records go through the file's buffer, and the buffer is flushed when
\* it fills and when the with block closes the file: a write that fails
\* leaves a proper prefix of the text on disk.
WriteCsv ==
    /\ pc = "write_csv"
    /\ \/ /\ files' = WriteFile(files, FilePath(r_c, c_c, filling) \o ".csv",
                                CsvText(table_title, CsvRowsWritten))
          /\ log' = Append(log, "write_csv")
          /\ pc' = StepAfter(pc)
          /\ UNCHANGED failure
       \/ /\ Raise("open")
          /\ UNCHANGED <<files, log>>
       \/ /\ Raise("csv write")
          /\ \E k \in 0..MinOf({MaxPartial, Len(CsvText(table_title, CsvRowsWritten)) - 1}) :
                files' = WriteFile(files, FilePath(r_c, c_c, filling) \o ".csv",
                                   SubSeq(CsvText(table_title, CsvRowsWritten), 1, k))
          /\ UNCHANGED log
    /\ clock' \in ClockChoices(SweepClockRuns)
    /\ UNCHANGED <<r_c, c_c, filling, table_data, table_title, tex_code, pdf,
                   dir_exists, rng, arg_n, rng_at_call, result>>

\* lines 151-153: the next (r_c, c_c, filling) of the three nested loops.
Loop ==
    /\ pc = "loop"
    /\ \/ /\ filling
          /\ filling' = FALSE
          /\ pc' = "generate_data"
          /\ UNCHANGED <<r_c, c_c>>
       \/ /\ ~filling
          /\ c_c + 1 < COLUMNS_COUNT_MAX
          /\ filling' = TRUE
          /\ c_c' = c_c + 1
          /\ pc' = "generate_data"
          /\ UNCHANGED r_c
       \/ /\ ~filling
          /\ ~(c_c + 1 < COLUMNS_COUNT_MAX)
          /\ r_c + 1 < ROW_COUNT_MAX
          /\ filling' = TRUE
          /\ c_c' = COLUMNS_COUNT_MIN
          /\ r_c' = r_c + 1
          /\ pc' = "generate_data"
       \/ /\ ~filling
          /\ ~(c_c + 1 < COLUMNS_COUNT_MAX)
          /\ ~(r_c + 1 < ROW_COUNT_MAX)
          /\ pc' = "done"
          /\ UNCHANGED <<r_c, c_c, filling>>
    /\ clock' \in ClockChoices(SweepClockRuns)
    /\ UNCHANGED <<table_data, table_title, tex_code, pdf, dir_exists, files,
                   rng, log, failure, arg_n, rng_at_call, result>>

Next ==
    \/ GenerateData
    \/ EnsureDir
    \/ Render
    \/ BuildPdf
    \/ SavePdf
    \/ WriteCsv
    \/ Loop

Spec == Init /\ [][Next]_vars

(***************************************************************************)
(* The functions called on their own: SpecFn starts with the arguments of  *)
(* one call (generate_data, get_text or generate_tex_code) and makes it.   *)
(* The arguments are in r_c, c_c, filling, arg_n, table_data, table_title, *)
(* the generator state in rng (rng_at_call keeps the state the call started *)
(* from), the clock in clock, the value returned in result.                *)
(***************************************************************************)
PlaceholderTokens ==
    {TEXT_BEFORE_TABLE, TEXT_AFTER_TABLE, TABLE, TABLE_SCHEMA, TABLE_ROWS_LIST, TABLE_TITLE}

\* Cell strings given to generate_tex_code: generated text, and text that
\* holds a placeholder token.
CellStrings == {"Amet.", "10"} \cup PlaceholderTokens

\* A table of `rows` rows of `cols` cells, `last` being its last cell.
TableWith(rows, cols, last) ==
    [r \in 1..rows |-> [c \in 1..cols |-> IF r = rows /\ c = cols THEN last ELSE "9"]]

\* A title row of n labels, `last` (when given) being its last label.
TitleWith(n, last) ==
    [i \in 1..n |-> IF i = n /\ last # NoValue THEN last ELSE "title" \o PyStrInt(i - 1)]

TexTables ==
    {TableWith(rows, cols, last) :
        rows \in 0..MaxTexRows, cols \in 0..MaxTexCols, last \in CellStrings}

TexTitles ==
    {TitleWith(n, last) : n \in 0..MaxTitleLen, last \in PlaceholderTokens \cup {NoValue}}

InitFnCommon ==
    /\ tex_code = NoValue
    /\ pdf = NoValue
    /\ dir_exists = FALSE
    /\ files = <<>>
    /\ clock = StartClock
    /\ log = <<>>
    /\ failure = NoValue
    /\ result = NoValue

InitFn ==
    /\ InitFnCommon
    /\ \/ /\ pc = "call_generate_data"
          /\ r_c \in 0..MaxRows
          /\ c_c \in 0..MaxCols
          /\ filling \in BOOLEAN
          /\ rng \in Seeds
          /\ arg_n = 0
          /\ table_data = NoValue
          /\ table_title = NoValue
       \/ /\ pc = "call_get_text"
          /\ arg_n \in 0..MaxSentences
          /\ rng \in 0..6
          /\ r_c = 0
          /\ c_c = 0
          /\ filling = TRUE
          /\ table_data = NoValue
          /\ table_title = NoValue
       \/ /\ pc = "call_generate_tex_code"
          /\ table_data \in TexTables
          /\ table_title \in TexTitles
          /\ rng \in Seeds
          /\ r_c = 0
          /\ c_c = 0
          /\ filling = TRUE
          /\ arg_n = 0
    /\ rng_at_call = rng

CallGenerateData ==
    /\ pc = "call_generate_data"
    /\ \E tick \in TickChoices(r_c * c_c, ClockRuns) :
          /\ result' = generate_data(r_c, c_c, filling, rng, clock, tick)
          /\ clock' \in ClockAfterCall(r_c, c_c, filling, tick, ClockRuns)
    /\ rng' = RngAfterData(r_c, c_c, filling, rng)
    /\ pc' = "ret_generate_data"
    /\ UNCHANGED <<r_c, c_c, filling, table_data, table_title, tex_code, pdf,
                   dir_exists, files, log, failure, arg_n, rng_at_call>>

CallGetText ==
    /\ pc = "call_get_text"
    /\ result' = get_text(arg_n, rng)
    /\ rng' = RngNext(rng)
    /\ clock' \in ClockChoices(ClockRuns)
    /\ pc' = "ret_get_text"
    /\ UNCHANGED <<r_c, c_c, filling, table_data, table_title, tex_code, pdf,
                   dir_exists, files, log, failure, arg_n, rng_at_call>>

\* Lines 117-118 draw the two paragraphs first; line 134 divides by
\* len(table_title_data): an empty title row raises.
CallGenerateTexCode ==
    /\ pc = "call_generate_tex_code"
    /\ \/ /\ Len(table_title) # 0
          /\ result' = generate_tex_code(table_data, table_title, rng)
          /\ pc' = "ret_generate_tex_code"
          /\ UNCHANGED failure
       \/ /\ Len(table_title) = 0
          /\ failure' = "ZeroDivisionError"
          /\ pc' = "raised_generate_tex_code"
          /\ UNCHANGED result
    /\ rng' = RngAfter(rng, 2 * ParagraphDraws)
    /\ clock' \in ClockChoices(ClockRuns)
    /\ UNCHANGED <<r_c, c_c, filling, table_data, table_title, tex_code, pdf,
                   dir_exists, files, log, arg_n, rng_at_call>>

NextFn ==
    \/ CallGenerateData
    \/ CallGetText
    \/ CallGenerateTexCode

SpecFn == InitFn /\ [][NextFn]_vars

(***************************************************************************)
(* Properties of the driver, checked under Spec.                           *)
(***************************************************************************)
IsPrefix(a, b) == Len(a) <= Len(b) /\ SubSeq(b, 1, Len(a)) = a

CsvPath == FilePath(r_c, c_c, filling) \o ".csv"
PdfPath == FilePath(r_c, c_c, filling) \o ".pdf"

ExpectedFiles ==
    {"./tables/" \o ToString(r) \o "_" \o ToString(c) \o "_" \o f \o ext :
        r \in 2..9, c \in 2..7, f \in {"True", "False"}, ext \in {".pdf", ".csv"}}

\* C1: when the sweep has run to completion, the files under 'tables' are
\* exactly '<r>_<c>_<f>.pdf' and '<r>_<c>_<f>.csv' for r in 2..9, c in 2..7,
\* f in {True, False}: 192 files, and nothing else.
C1_AllArtifactPairs ==
    pc = "done" =>
        /\ failure = NoValue
        /\ DOMAIN files = ExpectedFiles
        /\ Cardinality(DOMAIN files) = 192

C1_Witness ==
    /\ pc = "done"
    /\ "./tables/9_7_False.csv" \in DOMAIN files
    /\ "./tables/2_2_True.pdf" \in DOMAIN files

\* The tabular block of a markup document.
TableBlock(tex) ==
    SubSeq(tex, StrFind(tex, "\\begin{tabular}"),
           StrFind(tex, "\\end{tabular}\n") + Len("\\end{tabular}\n") - 1)

\* C2: once both files of an iteration are written, the table embedded in
\* the markup compiled into '<base>.pdf' is the rendering of exactly the
\* Title Row and Table that '<base>.csv' holds.
C2_PairEncodesSameData ==
    pc = "loop" =>
        LET records == csv_reader(files[CsvPath])
            markup == files[PdfPath][2]
        IN  /\ files[PdfPath] = build_pdf(tex_code)
            /\ TableBlock(markup) = TexTable(Tail(records), Head(records))

C2_Witness ==
    /\ pc = "loop"
    /\ ~filling
    /\ table_data[1][1] # table_data[1][2]
    /\ CsvPath \in DOMAIN files
    /\ PdfPath \in DOMAIN files

\* C4: parsing the CSV file just written, with the dialect it was written
\* in, gives the Title Row followed by the rows of the Table, unchanged and
\* in order: row_count + 1 records.
C4_CsvRoundTrip ==
    pc = "loop" =>
        LET records == csv_reader(files[CsvPath])
        IN  /\ Len(records) = r_c + 1
            /\ Head(records) = table_title
            /\ Tail(records) = table_data
            /\ \A i \in 1..r_c : \A j \in 1..c_c : records[i + 1][j] = table_data[i][j]

C4_Witness ==
    /\ pc = "loop"
    /\ filling
    /\ \E i \in 1..r_c : \E j \in 1..c_c : CsvNeedsQuote(table_data[i][j])
    /\ StrContains(files[CsvPath], CSV_QUOTECHAR)

FilesKept ==
    \A p \in DOMAIN files : p \in DOMAIN files' /\ files'[p] = files[p]

\* C5: a call that raises ends the run: the step that fails leaves every
\* file written before it in place and unchanged, and no step is taken
\* after it (so nothing of this or a later iteration runs, and no file is
\* written); the run ends at "done" only if nothing failed.
C5_FailStop ==
    [][/\ failure = NoValue
       /\ failure' # NoValue => (pc' = "halted" /\ FilesKept /\ log' = log)
       /\ pc' = "done" => failure' = NoValue]_vars

C5_Witness ==
    /\ pc = "halted"
    /\ failure = "build_pdf"
    /\ Cardinality(DOMAIN files) >= 2
    /\ ~(PdfPath \in DOMAIN files)

CodeOrder ==
    <<"generate_data", "get_table_title", "ensure_dir", "generate_tex_code",
      "build_pdf", "save_pdf", "write_csv">>

ClaimedOrder ==
    <<"generate_data", "get_table_title", "generate_tex_code", "build_pdf",
      "ensure_dir", "save_pdf", "write_csv">>

\* The steps completed in an iteration follow `order`, and an iteration
\* starts only when the one before it has completed all of them.
StepsFollow(order) ==
    /\ IsPrefix(log', order)
    /\ IsPrefix(log, log') \/ log = order

\* C6 (amended): each iteration runs generate_data and get_table_title, then
\* ensures the directory exists, then generate_tex_code, then build_pdf, then
\* writes the PDF, then the CSV; the next iteration starts only after the CSV
\* write.
C6_StepOrder == [][StepsFollow(CodeOrder)]_vars

\* C6 (as claimed): the directory is ensured after the compile step, with the
\* other Writer actions.
C6_ClaimedStepOrder == [][StepsFollow(ClaimedOrder)]_vars

C6_Witness ==
    /\ pc = "loop"
    /\ log = CodeOrder
    /\ r_c > ROW_COUNT_MIN

(***************************************************************************)
(* Properties of the functions, checked under SpecFn.                      *)
(***************************************************************************)

\* C3: generate_data(row_count, column_count, filling) returns row_count
\* rows of column_count cells each, zero counts included, and raises nothing.
C3_TableShape ==
    pc = "ret_generate_data" =>
        /\ failure = NoValue
        /\ Len(result) = r_c
        /\ DOMAIN result = 1..r_c
        /\ \A i \in 1..r_c : Len(result[i]) = c_c /\ DOMAIN result[i] = 1..c_c

C3_Witness ==
    /\ pc = "ret_generate_data"
    /\ r_c = 2
    /\ c_c = 0
    /\ result = << <<>>, <<>> >>

\* C7: get_text(n) is the concatenation, with no separator, of n sentences
\* drawn one after the other from the generator.
C7_IndependentDraws ==
    pc = "ret_get_text" =>
        result = StrJoin("", [i \in 1..arg_n |-> LoremSentence(RngAfter(rng_at_call, i - 1))])

\* The column schema inside a markup document: the text between
\* '\begin{tabular}{' and the '}' that ends that line.
SchemaOf(tex) ==
    SubSeq(tex, StrFind(tex, "\\begin{tabular}{") + Len("\\begin{tabular}{"),
           StrFind(tex, "}\n\\hline\n") - 1)

\* C8: the schema in the markup is 'p{<w>cm}' with w = floor(15 / n), n the
\* length of the Title Row, repeated n times, each preceded by '|', and
\* closed by '|'; n = 3 gives '|p{5cm}|p{5cm}|p{5cm}|', n = 7 gives width 2.
C8_ColumnSchema ==
    (pc = "ret_generate_tex_code" /\ Len(table_title) >= 1) =>
        LET n == Len(table_title)
            w == CHOOSE x \in 0..15 : x * n <= 15 /\ 15 < (x + 1) * n
            unit == "|p{" \o ToString(w) \o "cm}"
            schema == SchemaOf(result)
        IN  /\ Len(schema) = n * Len(unit) + 1
            /\ \A i \in 0..(n - 1) :
                  SubSeq(schema, i * Len(unit) + 1, (i + 1) * Len(unit)) = unit
            /\ CharAt(schema, Len(schema)) = "|"
            /\ n = 3 => schema = "|p{5cm}|p{5cm}|p{5cm}|"
            /\ n = 7 => w = 2

C8_Witness ==
    /\ pc = "ret_generate_tex_code"
    /\ Len(table_title) = 7
    /\ Len(table_data) = 1
    /\ Len(table_data[1]) = 2
    /\ SchemaOf(result) = "|p{2cm}|p{2cm}|p{2cm}|p{2cm}|p{2cm}|p{2cm}|p{2cm}|"

\* The number of places where sub occurs in s.
CountSub(s, sub) ==
    Cardinality({i \in 1..(Len(s) - Len(sub) + 1) :
                    /\ CharAt(s, i) = CharAt(sub, 1)
                    /\ SubSeq(s, i, i + Len(sub) - 1) = sub})

\* The data rows of the table block: the text between the rule that follows
\* the header line and '\end{tabular}'.
BodyOf(tex) ==
    SubSeq(tex, StrFind(tex, "\\\\ \\hline\n") + Len("\\\\ \\hline\n"),
           StrFind(tex, "\\end{tabular}") - 1)

\* Each row's cells joined by ' & ', followed by the line break and a rule.
RECURSIVE RowsWithRules(_)
RowsWithRules(rows) ==
    IF Len(rows) = 0 THEN ""
    ELSE StrJoin(" & ", Head(rows)) \o " \\\\ \\hline\n" \o RowsWithRules(Tail(rows))

\* No cell holds a token that a later replacement rewrites.
SafeCells(tdata) ==
    \A i \in 1..Len(tdata) : \A j \in 1..Len(tdata[i]) :
        /\ ~StrContains(tdata[i][j], TABLE_SCHEMA)
        /\ ~StrContains(tdata[i][j], TABLE_TITLE)
        /\ ~StrContains(tdata[i][j], TEXT_AFTER_TABLE)

SafeTitle(title) ==
    \A i \in 1..Len(title) : ~StrContains(title[i], TEXT_AFTER_TABLE)

\* For a table of at least minRows rows: R + 2 rules, and R row lines in
\* table order, each followed by the line break and a rule, and nothing else.
RowsAndRules(minRows) ==
    (pc = "ret_generate_tex_code" /\ Len(table_data) >= minRows) =>
        /\ CountSub(result, "\\hline") = Len(table_data) + 2
        /\ CountSub(BodyOf(result), "\n") = Len(table_data)
        /\ SafeCells(table_data) => BodyOf(result) = RowsWithRules(table_data)

\* C9: for a Table of R >= 0 rows the table block holds exactly R + 2 rules
\* and exactly R data row lines, in Table order, each followed by the line
\* break and a rule, and no additional empty row.
C9_RowsAndRulesAnyTable == RowsAndRules(0)

\* The same for tables of at least one row (this one holds: only the empty
\* table gets a row line of its own).
RowsAndRulesNonEmpty == RowsAndRules(1)

\* The document assembled from its parts, without placeholders.
ExpectedDocument(tdata, title, seed) ==
    "\\documentclass{article}\n"
    \o "\\usepackage[a4paper, portrait, margin=1in]{geometry}\n"
    \o "\\usepackage[utf8x]{inputenc}\n"
    \o "\\usepackage{tabularx}\n"
    \o "\\begin{document}\n"
    \o LoremParagraph(seed) \o "\n\n"
    \o "\\begin{tabular}{" \o TexSchema(title) \o "}\n"
    \o "\\hline\n"
    \o StrJoin(" & ", title) \o "\\\\ \\hline\n"
    \o StrJoin(" \\\\ \\hline\n", [i \in 1..Len(tdata) |-> StrJoin(" & ", tdata[i])])
    \o " \\\\ \\hline\n"
    \o "\\end{tabular}\n"
    \o "\n" \o LoremParagraph(RngAfter(seed, ParagraphDraws)) \o "\n"
    \o "\\end{document}"

\* When no cell contains '_TABLE_SCHEMA', '_TABLE_TITLE' or
\* '_TEXT_AFTER_TABLE' and no title contains '_TEXT_AFTER_TABLE', the markup
\* is the templates with the title line and the row lines put in character
\* for character (this one holds).
NoRewritingSafeText ==
    (/\ pc = "ret_generate_tex_code"
     /\ SafeCells(table_data)
     /\ SafeTitle(table_title)) =>
        result = ExpectedDocument(table_data, table_title, rng_at_call)

\* C10: for arbitrary cell and title strings the markup holds the title line
\* and every row line character for character: no replacement rewrites text
\* that came from a cell, a title or an earlier substitution.
C10_NoRewritingAnyText ==
    pc = "ret_generate_tex_code" =>
        result = ExpectedDocument(table_data, table_title, rng_at_call)

=============================================================================
